---- MODULE Spec2Model ----
(***************************************************************************)
(* Model of the CampusOffice calendar uploader.                            *)
(*                                                                         *)
(* The repository holds two programs that share the upload algorithm:      *)
(*   "script"  : cacaluploader.py (CampusCalendarUploader) wired to        *)
(*               adapter.py (CalDAVAdapter); identities are plain uids.    *)
(*   "package" : cacaluploader/synchronizer.py (CampusCalendarUploader)    *)
(*               wired to cacaluploader/upload_adapters.py                 *)
(*               (CalDAVUploadAdapter) and source_adapters.py; identities  *)
(*               are (calendar uid, event uid) pairs.                      *)
(* One run of upload() is cut at every call that leaves the process: the   *)
(* source fetch, connect, the listing, each delete and each add.           *)
(***************************************************************************)
EXTENDS Integers, Sequences, FiniteSets, TLC

(***************************************************************************)
(* Bounds of the model                                                     *)
(***************************************************************************)
MaxSrc == 2
MaxTgt == 2
MaxRuns == 2
MaxLen == 2
MaxOps == 3
MaxFeed == 2
MaxAccess == 3
RaceSrc == 1
RaceTgt == 1
MaxAssign == 2

(***************************************************************************)
(* Python values: strings are sequences of characters                      *)
(***************************************************************************)
PyNone == [t |-> "None", v |-> <<>>]

PyStr(s) == [t |-> "str", v |-> s]

PyTuple(s) == [t |-> "tuple", v |-> s]

PyInt(n) == [t |-> "int", v |-> n]

\* Python ==: values of different types are never equal
PyEq(a, b) == a.t = b.t /\ a.v = b.v

\* CalendarUploadAdapter._separator = '-|-'
separator == <<"-", "|", "-">>

\* does p occur in s at position i
OccursAt(s, p, i) ==
    /\ i + Len(p) - 1 <= Len(s)
    /\ \A k \in 1..Len(p) : s[i + k - 1] = p[k]

\* str.find, 1-based, 0 when p does not occur at or after i
RECURSIVE Find(_, _, _)
Find(s, p, i) ==
    IF i + Len(p) - 1 > Len(s) THEN 0
    ELSE IF OccursAt(s, p, i) THEN i
    ELSE Find(s, p, i + 1)

\* str.split(sep): cuts at every occurrence, left to right
RECURSIVE Split(_, _)
Split(s, sep) ==
    LET i == Find(s, sep, 1)
    IN  IF i = 0 THEN <<s>>
        ELSE <<SubSeq(s, 1, i - 1)>> \o Split(SubSeq(s, i + Len(sep), Len(s)), sep)

\* the least element of a non-empty set of indices, 0 for the empty set
FirstOf(I) == IF I = {} THEN 0 ELSE CHOOSE i \in I : \A j \in I : i <= j

\* the list without its i-th element
RemoveAt(s, i) == SubSeq(s, 1, i - 1) \o SubSeq(s, i + 1, Len(s))

(***************************************************************************)
(* The two programs                                                        *)
(***************************************************************************)
Programs == {"script", "package"}

\* uid of the source calendar (CalendarSourceAdapter._uid) that the package
\* stamps on every event it parses; the script has no calendar uid
SourceUid == <<"c">>

\* the time period of the uploader
WinStart == 1
WinEnd == 2

\* raw uid strings a target event may carry before the first run
TgtUids == { <<"1">>, <<"3">>, <<"c", "-", "|", "-", "1">>, <<"d", "-", "|", "-", "1">> }

\* uid strings of the events the source may return
SrcUids == { <<"1">>, <<"2">> }

Titles == {"A", "B"}

\* what the source export may hold: (uid, summary, dtstart, dtend)
FeedPool ==
    { [uid |-> u, title |-> ti, start_time |-> WinStart, end_time |-> WinEnd] :
        u \in SrcUids, ti \in Titles }

\* events a target calendar may hold: inside and outside the time period
TgtPool ==
    { [uid |-> u, title |-> "A", time |-> tm] : u \in TgtUids, tm \in {WinStart, WinEnd + 1} }

SeqsUpTo(S, n) == UNION { [1..k -> S] : k \in 0..n }

(***************************************************************************)
(* State                                                                   *)
(***************************************************************************)
VARIABLES
    program,        \* which of the two programs runs
    feed,           \* the events the source calendar holds (unchanged between runs)
    start_time,     \* CampusCalendarUploader._start_time
    end_time,       \* CampusCalendarUploader._end_time
    target,         \* the events stored on the upload calendar, in url order
    nextUrl,        \* next resource url the calendar server hands out
    run,            \* number of the current call of upload()
    pc,             \* position inside upload(): idle, fetched, connected, delete, add, done, raised
    events,         \* local list `events` of upload() / _upload_events()
    old_event_ids,  \* local list `old_event_ids`
    adapter_events, \* upload_calendar.events: result of the last date_search
    di,             \* index of the next element of the delete loop
    ai,             \* index of the next element of the add loop
    err,            \* exception that left upload(), "none" if none
    calls,          \* calls made in this run, in order
    target0,        \* target at the start of this run
    prev,           \* outcome of the previous run: none, done, raised
    codec,          \* an identity on its way through add_event and extractor
    adapter,        \* an upload adapter used directly: its calendar and self.events
    source,         \* a source adapter used directly: its _events and its fetches
    cli,            \* the __main__ block of cacaluploader.py
    race,           \* two runs of upload() at once on one upload calendar
    uploader,       \* an uploader's time period: constructor and setters
    sync            \* a source adapter and the list upload() diffs

\* the state of an uploader and its upload calendar
upload_vars == << program, feed, start_time, end_time, target, nextUrl, run, pc, events,
                  old_event_ids, adapter_events, di, ai, err, calls, target0, prev >>

vars == << program, feed, start_time, end_time, target, nextUrl, run, pc, events,
           old_event_ids, adapter_events, di, ai, err, calls, target0, prev,
           codec, adapter, source, cli, race, uploader, sync >>

\* an object that takes no part in the specification at hand
Off == [pc |-> "off"]

\* a call record: the operation, its first argument, the source event it is
\* made for (0 if none), the urls it removed or created, whether it returned
Call(op, arg, oid, urls, ok) ==
    [op |-> op, arg |-> arg, oid |-> oid, urls |-> urls, ok |-> ok]

\* the stored events get consecutive urls
Stored(s) == [i \in 1..Len(s) |-> [url |-> i, uid |-> s[i].uid, title |-> s[i].title, time |-> s[i].time]]

\* an uploader on which upload() is never called
UploadIdle ==
    /\ program = "script"
    /\ feed = <<>>
    /\ start_time = WinStart
    /\ end_time = WinEnd
    /\ target = <<>>
    /\ nextUrl = 1
    /\ run = 1
    /\ pc = "idle"
    /\ events = <<>>
    /\ old_event_ids = <<>>
    /\ adapter_events = <<>>
    /\ di = 1
    /\ ai = 1
    /\ err = "none"
    /\ calls = <<>>
    /\ target0 = <<>>
    /\ prev = "none"

Init ==
    /\ sync = Off
    /\ race = Off
    /\ uploader = Off
    /\ codec = Off
    /\ adapter = Off
    /\ source = Off
    /\ cli = Off
    /\ program \in Programs
    /\ feed \in SeqsUpTo(FeedPool, MaxSrc)
    /\ start_time = WinStart
    /\ end_time = WinEnd
    /\ \E s \in SeqsUpTo(TgtPool, MaxTgt) : target = Stored(s)
    /\ nextUrl = Len(target) + 1
    /\ run = 1
    /\ pc = "idle"
    /\ events = <<>>
    /\ old_event_ids = <<>>
    /\ adapter_events = <<>>
    /\ di = 1
    /\ ai = 1
    /\ err = "none"
    /\ calls = <<>>
    /\ target0 = target
    /\ prev = "none"

(***************************************************************************)
(* Source side                                                             *)
(***************************************************************************)
\* Event.from_ical_event(e, cal_uid): the package stamps the calendar uid of
\* the source adapter on the event; oid is the identity of the Python object
from_ical_event(e, cal_uid, oid) ==
    [ oid |-> oid, uid |-> PyStr(e.uid), calender_uid |-> cal_uid,
      title |-> e.title, start_time |-> e.start_time, end_time |-> e.end_time ]

\* the list of events a successful fetch hands to _upload_events
retrieve_events(prog, f) ==
    [ i \in 1..Len(f) |->
        from_ical_event(f[i], IF prog = "package" THEN PyStr(SourceUid) ELSE PyNone, i) ]

\* exceptions the fetch raises
FetchErrors == {"RequestException", "CampusOfficeAuthorizationError"}

(***************************************************************************)
(* Upload adapter                                                          *)
(***************************************************************************)
\* exceptions connect raises
ConnectErrors == {"AuthorizationError", "NotFoundError"}

\* calendar.date_search(start, end): the stored events of the time period
date_search(tgt, start, end) ==
    LET InPeriod(x) == start <= x.time /\ x.time <= end
    IN  SelectSeq(tgt, InPeriod)

\* CalDAVUploadAdapter.retrieve_event_ids.extractor
extractor(event) ==
    LET parts == Split(event.uid, separator)
        splitted_id == [i \in 1..Len(parts) |-> PyStr(parts[i])]
    IN  IF Len(splitted_id) = 1
        THEN PyTuple(<<PyNone>> \o splitted_id)
        ELSE PyTuple(splitted_id)

\* CalDAVAdapter.retrieve_event: the raw uid of every listed event
raw_uid(event) == PyStr(event.uid)

\* the list retrieve_event / retrieve_event_ids returns for a date_search result
retrieve_event_ids(prog, found) ==
    [ i \in 1..Len(found) |->
        IF prog = "package" THEN extractor(found[i]) ELSE raw_uid(found[i]) ]

\* number of positional arguments _upload_events passes to delete_event
DeleteArgsPassed == 1

\* number of positional arguments _upload_events passes to add_event
AddArgsPassed == 5

\* number of parameters (after self) of the adapter's delete_event
DeleteParams(prog) == IF prog = "package" THEN 2 ELSE 1

\* number of parameters (after self) of the adapter's add_event
AddParams(prog) == IF prog = "package" THEN 1 ELSE 5

\* a delete_event that searches the whole calendar instead of the last listing
delete_event_Unlisted(tgt, listed, uid) ==
    LET Keep(x) == ~PyEq(PyStr(x.uid), uid)
    IN  SelectSeq(tgt, Keep)

\* CalDAVAdapter.delete_event(uid): deletes every event of the last listing
\* whose uid property equals uid
delete_event(tgt, listed, uid) ==
    LET Hit(x) == \E i \in 1..Len(listed) :
                     listed[i].url = x.url /\ PyEq(PyStr(listed[i].uid), uid)
        Keep(x) == ~Hit(x)
    IN  SelectSeq(tgt, Keep)

\* an add_event that replaces the stored event of the same uid
add_event_Overwrite(tgt, url, ev) ==
    LET Other(x) == x.uid # ev.uid.v
    IN  Append(SelectSeq(tgt, Other),
               [url |-> url, uid |-> ev.uid.v, title |-> ev.title, time |-> ev.start_time])

\* CalDAVAdapter.add_event(uid, title, start_time, end_time, location):
\* stores one new event under a fresh url
add_event(tgt, url, ev) ==
    Append(tgt, [url |-> url, uid |-> ev.uid.v, title |-> ev.title, time |-> ev.start_time])

\* the urls of a that b no longer has
Removed(a, b) ==
    { a[i].url : i \in 1..Len(a) } \ { b[i].url : i \in 1..Len(b) }

(***************************************************************************)
(* The diff of _upload_events                                              *)
(***************************************************************************)
\* `new.uid == old_id` (package) / `new['uid'] == old_id` (script)
Matches(new, old_id) == PyEq(new.uid, old_id)

\* == of two source events as list.remove sees it: Event defines no __eq__
\* (object identity); icalendar.Event is a dict (equal content)
EventEq(prog, a, b) ==
    IF prog = "package" THEN a.oid = b.oid
    ELSE /\ a.uid = b.uid /\ a.title = b.title
         /\ a.start_time = b.start_time /\ a.end_time = b.end_time

\* the loop over itertools.product(events, old_event_ids); product copies both
\* lists before the first iteration, so evs0 and ids0 are the lists as they
\* were before the loop and evs, ids the lists being shrunk
RECURSIVE product_loop(_, _, _, _, _, _)
product_loop(prog, evs0, ids0, k, evs, ids) ==
    IF k > Len(evs0) * Len(ids0)
    THEN [events |-> evs, old_event_ids |-> ids, err |-> "none"]
    ELSE LET new == evs0[((k - 1) \div Len(ids0)) + 1]
             old_id == ids0[((k - 1) % Len(ids0)) + 1]
             i == FirstOf({ n \in 1..Len(evs) : EventEq(prog, evs[n], new) })
             j == FirstOf({ n \in 1..Len(ids) : PyEq(ids[n], old_id) })
         IN  IF ~Matches(new, old_id)
             THEN product_loop(prog, evs0, ids0, k + 1, evs, ids)
             ELSE IF i = 0
             THEN [events |-> evs, old_event_ids |-> ids, err |-> "ValueError"]
             ELSE IF j = 0
             THEN [events |-> RemoveAt(evs, i), old_event_ids |-> ids, err |-> "ValueError"]
             ELSE product_loop(prog, evs0, ids0, k + 1, RemoveAt(evs, i), RemoveAt(ids, j))

\* LoopPosition with the add loop moved in front of the delete loop
LoopPosition_AddFirst(d, a, nOld, nNew) ==
    IF a <= nNew THEN "add"
    ELSE IF d <= nOld THEN "delete"
    ELSE "done"

\* LoopPosition returning early when the source has no new event
LoopPosition_SkipEmpty(d, a, nOld, nNew) ==
    IF nNew = 0 THEN "done"
    ELSE IF d <= nOld THEN "delete"
    ELSE IF a <= nNew THEN "add"
    ELSE "done"

\* position of upload() once the lists are diffed and di - 1 deletes and
\* ai - 1 adds have returned: the delete loop runs before the add loop
LoopPosition(d, a, nOld, nNew) ==
    IF d <= nOld THEN "delete"
    ELSE IF a <= nNew THEN "add"
    ELSE "done"

(***************************************************************************)
(* upload(), one action per call that leaves the process                   *)
(***************************************************************************)
\* OnException with the exception of a delete or add call swallowed
OnException_SwallowWrite(step, e) ==
    IF step \in {"delete", "add"}
    THEN [pc |-> "done", err |-> "none"]
    ELSE [pc |-> "raised", err |-> e]

\* OnException with a failed fetch treated as an empty source
OnException_SwallowFetch(step, e) ==
    IF step = "fetch"
    THEN [pc |-> "fetched", err |-> "none"]
    ELSE [pc |-> "raised", err |-> e]

\* OnException with a failed connect ignored
OnException_SwallowConnect(step, e) ==
    IF step = "connect"
    THEN [pc |-> "connected", err |-> "none"]
    ELSE [pc |-> "raised", err |-> e]

\* where upload() is after `step` raised e: neither upload() nor
\* _upload_events() has an except clause, so every exception leaves the run
OnException(step, e) == [pc |-> "raised", err |-> e]

Raise(step, e) ==
    /\ pc' = OnException(step, e).pc
    /\ err' = OnException(step, e).err

(***************************************************************************)
(* Time periods                                                            *)
(***************************************************************************)
\* datetime.today(), counted in weeks
Today == 1

\* today + timedelta(weeks=-1), today + timedelta(weeks=27)
DefaultStart == Today - 1
DefaultEnd == Today + 27

\* a time period as an object keeps it
Period(start, end) == [_start_time |-> start, _end_time |-> end]

\* CampusCalenderAdapter.__init__: the period the adapter queries and its
\* start_time / end_time properties return
campus_init(start, end) ==
    IF start.t # "None" /\ end.t # "None"
    THEN [w |-> Period(start, end), err |-> "none"]
    ELSE IF (start.t = "None") # (end.t = "None")
    THEN [w |-> Period(PyInt(DefaultStart), PyInt(DefaultEnd)), err |-> "ValueError"]
    ELSE [w |-> Period(PyInt(DefaultStart), PyInt(DefaultEnd)), err |-> "none"]

\* the period of the source calendar upload() creates
source_period(start, end) ==
    LET w == campus_init(PyInt(start), PyInt(end)).w
    IN  PyTuple(<<w._start_time, w._end_time>>)

\* a listing over a period that ends one step later than the uploader's
listing_period_Wider(start, end) == PyTuple(<<PyInt(start), PyInt(end + 1)>>)

\* the arguments of retrieve_event_ids(self.start_time, self.end_time)
listing_period(start, end) == PyTuple(<<PyInt(start), PyInt(end)>>)

\* campus_cal.events / _retrieve_source_calendar
Fetch ==
    /\ pc = "idle"
    /\ \/ /\ events' = retrieve_events(program, feed)
          /\ calls' = Append(calls, Call("fetch", source_period(start_time, end_time), 0, {}, TRUE))
          /\ pc' = "fetched"
          /\ err' = err
       \/ /\ \E e \in FetchErrors : Raise("fetch", e)
          /\ calls' = Append(calls, Call("fetch", source_period(start_time, end_time), 0, {}, FALSE))
          /\ events' = events
    /\ UNCHANGED << program, feed, start_time, end_time, target, nextUrl, run,
                    old_event_ids, adapter_events, di, ai, target0, prev >>
    /\ UNCHANGED << codec, adapter, source, cli, race, uploader, sync >>

\* self.upload_calendar.connect()
Connect ==
    /\ pc = "fetched"
    /\ \/ /\ calls' = Append(calls, Call("connect", PyNone, 0, {}, TRUE))
          /\ pc' = "connected"
          /\ err' = err
       \/ /\ \E e \in ConnectErrors : Raise("connect", e)
          /\ calls' = Append(calls, Call("connect", PyNone, 0, {}, FALSE))
    /\ UNCHANGED << program, feed, start_time, end_time, target, nextUrl, run, events,
                    old_event_ids, adapter_events, di, ai, target0, prev >>
    /\ UNCHANGED << codec, adapter, source, cli, race, uploader, sync >>

\* retrieve_event_ids(self.start_time, self.end_time) and the matching loop
List ==
    /\ pc = "connected"
    /\ \/ LET period == listing_period(start_time, end_time)
              found == date_search(target, period.v[1].v, period.v[2].v)
              r == product_loop(program, events, retrieve_event_ids(program, found), 1,
                                events, retrieve_event_ids(program, found))
          IN  /\ adapter_events' = found
              /\ calls' = Append(calls, Call("list", period, 0, {}, TRUE))
              /\ events' = r.events
              /\ old_event_ids' = r.old_event_ids
              /\ IF r.err = "none"
                 THEN /\ pc' = LoopPosition(1, 1, Len(r.old_event_ids), Len(r.events))
                      /\ err' = err
                 ELSE Raise("diff", r.err)
       \/ /\ Raise("list", "ReportError")
          /\ calls' = Append(calls, Call("list", listing_period(start_time, end_time), 0, {}, FALSE))
          /\ UNCHANGED << events, old_event_ids, adapter_events >>
    /\ di' = 1
    /\ ai' = 1
    /\ UNCHANGED << program, feed, start_time, end_time, target, nextUrl, run,
                    target0, prev >>
    /\ UNCHANGED << codec, adapter, source, cli, race, uploader, sync >>

\* self.upload_calendar.delete_event(uid) for the next stale id
Delete ==
    /\ pc = "delete"
    /\ LET uid == old_event_ids[di]
       IN  \/ /\ DeleteArgsPassed = DeleteParams(program)
              /\ target' = delete_event(target, adapter_events, uid)
              /\ calls' = Append(calls, Call("delete", uid, 0, Removed(target, target'), TRUE))
              /\ di' = di + 1
              /\ pc' = LoopPosition(di + 1, ai, Len(old_event_ids), Len(events))
              /\ err' = err
           \/ /\ DeleteArgsPassed = DeleteParams(program)
              /\ Raise("delete", "DeleteError")
              /\ calls' = Append(calls, Call("delete", uid, 0, {}, FALSE))
              /\ UNCHANGED << target, di >>
           \/ /\ DeleteArgsPassed # DeleteParams(program)
              /\ Raise("delete", "TypeError")
              /\ calls' = Append(calls, Call("delete", uid, 0, {}, FALSE))
              /\ UNCHANGED << target, di >>
    /\ UNCHANGED << program, feed, start_time, end_time, nextUrl, run, events,
                    old_event_ids, adapter_events, ai, target0, prev >>
    /\ UNCHANGED << codec, adapter, source, cli, race, uploader, sync >>

\* self.upload_calendar.add_event(ev.uid, ev.title, ...) for the next new event
Add ==
    /\ pc = "add"
    /\ LET ev == events[ai]
       IN  \/ /\ AddArgsPassed = AddParams(program)
              /\ target' = add_event(target, nextUrl, ev)
              /\ nextUrl' = nextUrl + 1
              /\ calls' = Append(calls, Call("add", ev.uid, ev.oid, {nextUrl}, TRUE))
              /\ ai' = ai + 1
              /\ pc' = LoopPosition(di, ai + 1, Len(old_event_ids), Len(events))
              /\ err' = err
           \/ /\ AddArgsPassed = AddParams(program)
              /\ Raise("add", "PutError")
              /\ calls' = Append(calls, Call("add", ev.uid, ev.oid, {}, FALSE))
              /\ UNCHANGED << target, nextUrl, ai >>
           \/ /\ AddArgsPassed # AddParams(program)
              /\ Raise("add", "TypeError")
              /\ calls' = Append(calls, Call("add", ev.uid, ev.oid, {}, FALSE))
              /\ UNCHANGED << target, nextUrl, ai >>
    /\ UNCHANGED << program, feed, start_time, end_time, run, events,
                    old_event_ids, adapter_events, di, target0, prev >>
    /\ UNCHANGED << codec, adapter, source, cli, race, uploader, sync >>

\* upload() has returned or raised; the caller calls it again on the same objects
NextRun ==
    /\ pc \in {"done", "raised"}
    /\ run < MaxRuns
    /\ run' = run + 1
    /\ prev' = IF pc = "done" THEN "done" ELSE err
    /\ pc' = "idle"
    /\ err' = "none"
    /\ calls' = <<>>
    /\ events' = <<>>
    /\ old_event_ids' = <<>>
    /\ di' = 1
    /\ ai' = 1
    /\ target0' = target
    /\ UNCHANGED << program, feed, start_time, end_time, target, nextUrl, adapter_events >>
    /\ UNCHANGED << codec, adapter, source, cli, race, uploader, sync >>

Next == Fetch \/ Connect \/ List \/ Delete \/ Add \/ NextRun

Spec == Init /\ [][Next]_vars

TypeOK ==
    /\ program \in Programs
    /\ pc \in {"idle", "fetched", "connected", "delete", "add", "done", "raised"}
    /\ run \in 1..MaxRuns
    /\ (pc = "delete" => di \in 1..Len(old_event_ids))
    /\ (pc = "add" => ai \in 1..Len(events))
    /\ (err = "none") = (pc # "raised")

(***************************************************************************)
(* Vocabulary of the properties                                            *)
(***************************************************************************)
Range(s) == { s[i] : i \in 1..Len(s) }

\* the events the fetch of this run returned
Fetched == retrieve_events(program, feed)

\* identity of a source event: the pair (calendar uid, event uid)
identity(e) == PyTuple(<<e.calender_uid, e.uid>>)

SourceIds == { identity(e) : e \in Range(Fetched) }

\* the listing of this run was returned
ListReturned == \E i \in 1..Len(calls) : calls[i].op = "list" /\ calls[i].ok

\* the identities the listing of this run returned, in order
Listed == retrieve_event_ids(program, adapter_events)

\* identities stored on a calendar inside / events stored outside the time period
IdsInPeriod(tgt) == { extractor(x) : x \in Range(date_search(tgt, start_time, end_time)) }

OutsidePeriod(tgt) == Range(tgt) \ Range(date_search(tgt, start_time, end_time))

\* exceptions of the steps of a run: what the source and the calendar server raise
StepErrors == FetchErrors \cup ConnectErrors \cup {"ReportError", "DeleteError", "PutError"}

RunOver == pc \in {"done", "raised"}

CallsOf(op) == { i \in 1..Len(calls) : calls[i].op = op }

\* no identity occurs twice in the source or in the listing
UniqueIds ==
    /\ \A i, j \in 1..Len(Fetched) : identity(Fetched[i]) = identity(Fetched[j]) => i = j
    /\ \A i, j \in 1..Len(Listed) : Listed[i] = Listed[j] => i = j

\* the identity a delete or add call is made for
CallIdentity(c) == IF c.op = "add" THEN identity(Fetched[c.oid]) ELSE c.arg

C3_MinimalDiff ==
    (program = "package" /\ ListReturned /\ UniqueIds)
        => /\ \A i \in CallsOf("delete") : calls[i].arg \in Range(Listed) \ SourceIds
           /\ \A i \in CallsOf("add") : identity(Fetched[calls[i].oid]) \notin Range(Listed)
           /\ \A i, j \in CallsOf("delete") \cup CallsOf("add") :
                 (calls[i].op = calls[j].op /\ CallIdentity(calls[i]) = CallIdentity(calls[j]))
                     => i = j
           /\ pc = "done" =>
                 /\ \A t \in Range(Listed) \ SourceIds :
                       \E i \in CallsOf("delete") : calls[i].arg = t
                 /\ \A e \in Range(Fetched) : identity(e) \notin Range(Listed) =>
                       \E i \in CallsOf("add") : calls[i].oid = e.oid

\* C4 (as claimed): the package makes no delete and no add call for an identity
\* that a source event and a listed target event share.
C4_NoUpdateOfMatched ==
    (program = "package" /\ ListReturned)
        => \A i \in CallsOf("delete") \cup CallsOf("add") :
              CallIdentity(calls[i]) \notin (SourceIds \cap Range(Listed))

\* the fetch of this run returned
FetchReturned == \E i \in CallsOf("fetch") : calls[i].ok

\* the delete calls of this run, in order, as a sequence
DeleteCalls == SelectSeq(calls, LAMBDA c : c.op = "delete")

\* C5 (as claimed): when the source yields zero events the run makes no call
\* that lists target identities and no delete call, and removes nothing.
C5_WindowSkip ==
    (program = "package" /\ FetchReturned /\ Len(Fetched) = 0)
        => /\ CallsOf("list") \cup CallsOf("delete") = {}
           /\ target = target0

\* C5 (amended): when the source yields zero events the run still lists the
\* target identities of the uploader's time period, makes no add call, and
\* calls delete for the listed identities in listing order until a call
\* raises: a run that returns has called delete for every listed identity.
C5_EmptySourceDeletesListed ==
    (FetchReturned /\ Len(Fetched) = 0)
        => /\ pc \in {"delete", "add", "done"} => ListReturned
           /\ CallsOf("add") = {}
           /\ ListReturned =>
                 /\ Len(DeleteCalls) <= Len(Listed)
                 /\ \A k \in 1..Len(DeleteCalls) : DeleteCalls[k].arg = Listed[k]
                 /\ pc = "done" => Len(DeleteCalls) = Len(Listed)

\* an empty source, and a listed target event deleted by a run that returned
C5_Witness ==
    /\ FetchReturned /\ Len(Fetched) = 0
    /\ pc = "done"
    /\ \E i \in CallsOf("delete") : calls[i].ok /\ calls[i].urls # {}

\* C6 (as claimed): in the package, once the lists are diffed, a source event
\* has been taken out of the working list exactly when its pair
\* (calendar uid, event uid) is listed on the target, and a listed identity has
\* been taken out exactly when a source event has the same pair.
C6_CompositeMatching ==
    (program = "package" /\ ListReturned /\ UniqueIds /\ pc \in {"delete", "add", "done"})
        => /\ \A e \in Range(Fetched) :
                 (e \notin Range(events)) <=> (identity(e) \in Range(Listed))
           /\ \A t \in Range(Listed) :
                 (t \notin Range(old_event_ids)) <=> (t \in SourceIds)

\* C7: in every run every delete call comes before every add call.
C7_DeletesBeforeAdds ==
    \A i \in CallsOf("delete"), j \in CallsOf("add") : i < j

\* a run that has made a delete call and an add call
C7_Witness ==
    /\ CallsOf("delete") # {}
    /\ CallsOf("add") # {}

\* C8: a call that raised is the last call of its run and its exception has
\* left upload(); what the earlier delete and add calls of the run did to the
\* target is still in place.
C8_AbortWithoutRollback ==
    /\ \A i \in 1..Len(calls) :
          ~calls[i].ok => (i = Len(calls) /\ pc = "raised" /\ err # "none")
    /\ pc = "raised" =>
          \A i \in 1..Len(calls) :
              /\ (calls[i].op = "add" /\ calls[i].ok)
                     => \E x \in Range(target) : x.url \in calls[i].urls
              /\ (calls[i].op = "delete" /\ calls[i].ok)
                     => \A x \in Range(target) : x.url \notin calls[i].urls

\* a run aborted by a failing call after a delete removed an event and an add
\* stored one
C8_Witness ==
    /\ pc = "raised"
    /\ ~calls[Len(calls)].ok
    /\ \E i \in CallsOf("delete") : calls[i].ok /\ calls[i].urls # {}
    /\ \E i \in CallsOf("add") : calls[i].ok

\* C9: when the fetch of the source fails, the run makes no call on the upload
\* calendar: no connect, no listing, no delete, no add.
C9_FetchFailureNoTargetCall ==
    (\E i \in CallsOf("fetch") : ~calls[i].ok)
        => CallsOf("connect") \cup CallsOf("list") \cup CallsOf("delete") \cup CallsOf("add") = {}

\* a run that the rejected CampusOffice login ended
C9_Witness ==
    /\ pc = "raised"
    /\ err = "CampusOfficeAuthorizationError"
    /\ Len(calls) = 1

\* C10: connect is called after the fetch returned and before every other call
\* on the upload calendar; when connect fails there is no listing, delete or add.
C10_ConnectFirst ==
    /\ \A i \in CallsOf("list") \cup CallsOf("delete") \cup CallsOf("add") :
          \E j \in CallsOf("connect") : j < i /\ calls[j].ok
    /\ \A j \in CallsOf("connect") :
          \E k \in CallsOf("fetch") : k < j /\ calls[k].ok
    /\ (\E j \in CallsOf("connect") : ~calls[j].ok)
          => CallsOf("list") \cup CallsOf("delete") \cup CallsOf("add") = {}

\* a run with a fetched, non-empty source that a failing connect ended
C10_Witness ==
    /\ pc = "raised"
    /\ err \in ConnectErrors
    /\ Len(events) > 0

(***************************************************************************)
(* The identity on the wire: add_event writes it, extractor reads it       *)
(***************************************************************************)
\* the characters of the strings tried: a letter and those of the separator
Chars == {"a", "-", "|"}

Strings == SeqsUpTo(Chars, MaxLen)

\* the value of an expression that raised TypeError
PyTypeError == [t |-> "TypeError", v |-> <<>>]

\* Python a + b: defined for two str only
PyAdd(a, b) ==
    IF a.t = "str" /\ b.t = "str" THEN PyStr(a.v \o b.v) ELSE PyTypeError

\* the uid property add_event gives the new event:
\* event.calender_uid + CalendarUploadAdapter._separator + event.uid
uid_property(event) ==
    PyAdd(PyAdd(event.calender_uid, PyStr(separator)), event.uid)

\* s does not contain the separator
NoSeparator(s) == Find(s, separator, 1) = 0

CodecInit ==
    /\ sync = Off
    /\ race = Off
    /\ uploader = Off
    /\ UploadIdle
    /\ adapter = Off
    /\ source = Off
    /\ cli = Off
    /\ \E c \in {PyNone} \cup { PyStr(x) : x \in Strings }, u \in Strings :
          codec = [pc |-> "input", calender_uid |-> c, uid |-> PyStr(u),
                   raw |-> PyNone, out |-> PyNone]

\* add_event computes the uid property of the event
CodecEncode ==
    /\ codec.pc = "input"
    /\ LET r == uid_property(codec)
       IN  IF r.t = "str"
           THEN codec' = [codec EXCEPT !.pc = "stored", !.raw = r]
           ELSE codec' = [codec EXCEPT !.pc = "raised"]
    /\ UNCHANGED << upload_vars, adapter, source, cli, race, uploader, sync >>

\* the event was stored with its uid alone, as adapter.py stores it
CodecStoreBare ==
    /\ codec.pc = "input"
    /\ codec' = [codec EXCEPT !.pc = "stored_bare", !.raw = codec.uid]
    /\ UNCHANGED << upload_vars, adapter, source, cli, race, uploader, sync >>

\* retrieve_event_ids reads the stored uid property back
CodecDecode ==
    /\ codec.pc \in {"stored", "stored_bare"}
    /\ codec' = [codec EXCEPT
                    !.pc = IF codec.pc = "stored" THEN "decoded" ELSE "decoded_bare",
                    !.out = extractor([uid |-> codec.raw.v])]
    /\ UNCHANGED << upload_vars, adapter, source, cli, race, uploader, sync >>

CodecNext == CodecEncode \/ CodecStoreBare \/ CodecDecode

SpecCodec == CodecInit /\ [][CodecNext]_vars

\* C11 (as claimed): for a calendar uid and an event uid that do not contain
\* the separator, reading back what add_event wrote gives the pair
\* (calendar uid, event uid), and reading back a stored string without
\* separator gives (None, that string).
C11_RoundTrip ==
    /\ (codec.pc = "decoded" /\ NoSeparator(codec.calender_uid.v) /\ NoSeparator(codec.uid.v))
          => codec.out = PyTuple(<<codec.calender_uid, codec.uid>>)
    /\ (codec.pc = "decoded_bare" /\ NoSeparator(codec.uid.v))
          => codec.out = PyTuple(<<PyNone, codec.uid>>)

(***************************************************************************)
(* The upload adapters used directly, each through its own signature       *)
(***************************************************************************)
Backends == {"CalDAVAdapter", "CalDAVUploadAdapter", "ExchangeUploadAdapter"}

\* the events handed to add_event
AdapterEvents ==
    { [ uid |-> PyStr(u), calender_uid |-> c, title |-> "A",
        start_time |-> WinStart, end_time |-> WinEnd ] :
        u \in { <<"1">>, <<"2">> }, c \in { PyNone, PyStr(SourceUid) } }

\* the (calendar uid, event uid) pairs handed to delete_event
AdapterIds == { identity(e) : e \in AdapterEvents }

\* what the calendar may hold before the first call
AdapterCalendars ==
    { <<>> } \cup
    { Stored(<<[uid |-> u, title |-> "A", time |-> tm]>>) :
        u \in { <<"1">>, <<"c", "-", "|", "-", "1">> }, tm \in {WinStart, WinEnd + 1} }

\* ExchangeUploadAdapter._tag_re.sub('', body): drops every <...> and the
\* line breaks
RECURSIVE StripTags(_)
StripTags(s) ==
    IF s = <<>> THEN <<>>
    ELSE IF s[1] = "<" /\ Find(s, <<">">>, 1) # 0
         THEN StripTags(SubSeq(s, Find(s, <<">">>, 1) + 1, Len(s)))
    ELSE IF s[1] \in {"\n", "\r"} THEN StripTags(Tail(s))
    ELSE <<s[1]>> \o StripTags(Tail(s))

\* a value of self.events: None before the first listing, then a list
PyList(s) == [t |-> "list", v |-> s]

\* one call on the adapter: operation, identity it is made for, urls it
\* created or removed, list it returned, whether it returned, exception
AdapterCall(op, id, urls, ret, raised) ==
    [op |-> op, id |-> id, urls |-> urls, ret |-> ret, ok |-> raised = "none", err |-> raised]

AdapterInit ==
    /\ sync = Off
    /\ race = Off
    /\ uploader = Off
    /\ UploadIdle
    /\ codec = Off
    /\ source = Off
    /\ cli = Off
    /\ \E b \in Backends, c \in AdapterCalendars :
          adapter = [ pc |-> "on", backend |-> b, calendar |-> c, events |-> PyNone,
                      nextUrl |-> Len(c) + 1, log |-> <<>> ]

\* the string add_event stores as uid property (CalDAV) or body (Exchange)
stored_id(backend, event) ==
    IF backend = "CalDAVUploadAdapter" THEN uid_property(event) ELSE event.uid

\* add_event(event) / add_event(uid, title, start_time, end_time, location)
AdapterAdd ==
    /\ adapter.pc = "on"
    /\ Len(adapter.log) < MaxOps
    /\ \E e \in AdapterEvents :
          LET r == stored_id(adapter.backend, e)
          IN  /\ adapter.backend = "CalDAVAdapter" => e.calender_uid = PyNone
              /\ \/ /\ r.t = "str"
                    /\ adapter' = [adapter EXCEPT
                          !.calendar = Append(@, [url |-> adapter.nextUrl, uid |-> r.v,
                                                  title |-> e.title, time |-> e.start_time]),
                          !.nextUrl = @ + 1,
                          !.log = Append(@, AdapterCall("add", identity(e), {adapter.nextUrl},
                                                        <<>>, "none"))]
                 \/ /\ r.t = "str"
                    /\ adapter' = [adapter EXCEPT
                          !.log = Append(@, AdapterCall("add", identity(e), {}, <<>>, "PutError"))]
                 \/ /\ r.t # "str"
                    /\ adapter' = [adapter EXCEPT
                          !.log = Append(@, AdapterCall("add", identity(e), {}, <<>>, "TypeError"))]
    /\ UNCHANGED << upload_vars, codec, source, cli, race, uploader, sync >>

\* what retrieve_event / retrieve_event_ids returns for a listed event
listed_id(backend, x) ==
    IF backend = "CalDAVUploadAdapter" THEN extractor(x)
    ELSE IF backend = "ExchangeUploadAdapter" THEN PyStr(StripTags(x.uid))
    ELSE raw_uid(x)

\* retrieve_event_ids(start_time, end_time)
AdapterList ==
    /\ adapter.pc = "on"
    /\ Len(adapter.log) < MaxOps
    /\ \/ LET found == date_search(adapter.calendar, WinStart, WinEnd)
          IN  adapter' = [adapter EXCEPT
                 !.events = PyList(found),
                 !.log = Append(@, AdapterCall("list", PyNone, {},
                            [i \in 1..Len(found) |-> listed_id(adapter.backend, found[i])],
                            "none"))]
       \/ adapter' = [adapter EXCEPT
             !.log = Append(@, AdapterCall("list", PyNone, {}, <<>>, "ReportError"))]
    /\ UNCHANGED << upload_vars, codec, source, cli, race, uploader, sync >>

\* the string delete_event looks for: CalDAVUploadAdapter joins the pair
\* unless cal_uid is None, CalDAVAdapter is given the string
wanted_uid(backend, id) ==
    IF backend = "CalDAVUploadAdapter" /\ id.v[1].t # "None"
    THEN PyAdd(PyAdd(id.v[1], PyStr(separator)), id.v[2])
    ELSE id.v[2]

\* the exception delete_event raises before it reaches the calendar:
\* filter() over self.events = None raises TypeError; the lambda of
\* ExchangeUploadAdapter.delete_event reads the undefined name uid as soon as
\* there is a listed event to test
delete_raises(backend, evs) ==
    IF evs.t = "None" THEN "TypeError"
    ELSE IF backend = "ExchangeUploadAdapter" /\ Len(evs.v) > 0 THEN "NameError"
    ELSE "none"

\* the calendar after delete_event returned: every event of the last listing
\* whose stored uid equals the wanted string is deleted
delete_listed(backend, cal, evs, id) ==
    IF backend = "ExchangeUploadAdapter" THEN cal
    ELSE delete_event(cal, evs.v, wanted_uid(backend, id))

\* the urls of the listed events delete_event calls e.delete() on
delete_targets(backend, evs, id) ==
    IF backend = "ExchangeUploadAdapter" \/ evs.t = "None" THEN {}
    ELSE { evs.v[i].url : i \in { j \in 1..Len(evs.v) :
                                    PyEq(PyStr(evs.v[j].uid), wanted_uid(backend, id)) } }

\* delete_event(cal_uid, ev_uid) / delete_event(uid); e.delete() of an event
\* the server refuses raises DeleteError
AdapterDelete ==
    /\ adapter.pc = "on"
    /\ Len(adapter.log) < MaxOps
    /\ \E id \in AdapterIds :
          LET x == delete_raises(adapter.backend, adapter.events)
              after == delete_listed(adapter.backend, adapter.calendar, adapter.events, id)
          IN  /\ adapter.backend = "CalDAVAdapter" => id.v[1] = PyNone
              /\ \/ /\ x = "none"
                    /\ adapter' = [adapter EXCEPT
                          !.calendar = after,
                          !.log = Append(@, AdapterCall("delete", id,
                                             Removed(adapter.calendar, after), <<>>, "none"))]
                 \/ /\ x = "none"
                    /\ delete_targets(adapter.backend, adapter.events, id) # {}
                    /\ adapter' = [adapter EXCEPT
                          !.log = Append(@, AdapterCall("delete", id, {}, <<>>, "DeleteError"))]
                 \/ /\ x # "none"
                    /\ adapter' = [adapter EXCEPT
                          !.log = Append(@, AdapterCall("delete", id, {}, <<>>, x))]
    /\ UNCHANGED << upload_vars, codec, source, cli, race, uploader, sync >>

AdapterNext == AdapterAdd \/ AdapterList \/ AdapterDelete

SpecAdapter == AdapterInit /\ [][AdapterNext]_vars

AdapterLog == IF adapter.pc = "on" THEN adapter.log ELSE <<>>

\* the event add call i created was still stored when call j was made
StillStored(i, j) ==
    \A k \in (i + 1)..(j - 1) : AdapterLog[k].urls \cap AdapterLog[i].urls = {}

\* C12: for the CalDAV and the Exchange backend, a listing made after
\* add_event(e) succeeded returns the pair (e.calender_uid, e.uid), and
\* delete_event called with that pair after the listing returns and removes
\* the event add_event created
C12_AddRetrieveDelete ==
    (adapter.pc = "on" /\ adapter.backend \in {"CalDAVUploadAdapter", "ExchangeUploadAdapter"}) =>
    \A i \in 1..Len(AdapterLog), j \in 1..Len(AdapterLog) :
        ( /\ i < j
          /\ AdapterLog[i].op = "add" /\ AdapterLog[i].ok
          /\ AdapterLog[j].op = "list" /\ AdapterLog[j].ok
          /\ StillStored(i, j) ) =>
        /\ \E n \in 1..Len(AdapterLog[j].ret) : PyEq(AdapterLog[j].ret[n], AdapterLog[i].id)
        /\ \A k \in 1..Len(AdapterLog) :
              ( /\ j < k
                /\ AdapterLog[k].op = "delete"
                /\ AdapterLog[k].id = AdapterLog[i].id
                /\ AdapterLog[k].err # "DeleteError"
                /\ StillStored(i, k) ) =>
              /\ AdapterLog[k].ok
              /\ AdapterLog[i].urls \subseteq AdapterLog[k].urls

\* the (calendar uid, event uid) pair a stored event stands for
stored_identity(backend, x) ==
    IF backend = "CalDAVUploadAdapter" THEN extractor(x) ELSE PyTuple(<<PyNone, raw_uid(x)>>)

\* the call a step of the adapter appended to the log
DeleteStep ==
    /\ adapter.pc = "on"
    /\ adapter.backend \in {"CalDAVUploadAdapter", "CalDAVAdapter"}
    /\ Len(adapter'.log) = Len(adapter.log) + 1
    /\ adapter'.log[Len(adapter'.log)].op = "delete"

LastCall == adapter'.log[Len(adapter'.log)]

SourceKinds == {"CampusCalenderAdapter", "ICalendarAdapter"}

\* the time period a CampusCalenderAdapter asks CampusOffice for
QueryStart == 1
QueryEnd == 3

\* the events the server's calendar holds, all inside the queried period
ServedEvents ==
    { [uid |-> u, start_time |-> a, end_time |-> b] :
        u \in { <<"1">> }, a \in QueryStart..(QueryEnd - 1), b \in (QueryStart + 1)..QueryEnd }

SourceInit ==
    /\ sync = Off
    /\ race = Off
    /\ uploader = Off
    /\ UploadIdle
    /\ codec = Off
    /\ adapter = Off
    /\ cli = Off
    /\ \E k \in SourceKinds, f \in SeqsUpTo({ e \in ServedEvents : e.start_time <= e.end_time }, MaxFeed) :
          source = [ pc |-> "on", kind |-> k, served |-> f, _events |-> PyNone,
                     _start_time |-> QueryStart, _end_time |-> QueryEnd, log |-> <<>> ]

\* one property access: the property, how often it invoked retrieve_events,
\* what it returned or raised
Access(prop, invoked, ret, raised) ==
    [prop |-> prop, invoked |-> invoked, ret |-> ret, ok |-> raised = "none", err |-> raised]

\* the exceptions retrieve_events of a source adapter raises
retrieve_errors(kind) ==
    IF kind = "CampusCalenderAdapter" THEN FetchErrors ELSE {"RequestException"}

\* an events property that fetches on every access
events_is_None_Always(src) == TRUE

\* `if self._events is None` of the events property
events_is_None(src) == src._events.t = "None"

\* the events property: src after the access, and the access
events_property(src, outcome) ==
    IF ~events_is_None(src)
    THEN [src |-> src, acc |-> Access("events", 0, src._events, "none")]
    ELSE IF outcome = "none"
    THEN [src |-> [src EXCEPT !._events = PyList(src.served)],
          acc |-> Access("events", 1, PyList(src.served), "none")]
    ELSE [src |-> src, acc |-> Access("events", 1, PyNone, outcome)]

\* the loop of CalendarSourceAdapter.start_time
RECURSIVE first_start(_, _)
first_start(evs, first) ==
    IF evs = <<>> THEN first
    ELSE first_start(Tail(evs),
            IF first.t = "None" \/ Head(evs).start_time < first.v
            THEN PyInt(Head(evs).start_time) ELSE first)

\* the loop of CalendarSourceAdapter.end_time
RECURSIVE last_end(_, _)
last_end(evs, last) ==
    IF evs = <<>> THEN last
    ELSE last_end(Tail(evs),
            IF last.t = "None" \/ last.v < Head(evs).end_time
            THEN PyInt(Head(evs).end_time) ELSE last)

\* start_time / end_time: CampusCalenderAdapter returns the queried period,
\* the base class goes over self.events
time_property(prop, src, outcome) ==
    IF src.kind = "CampusCalenderAdapter"
    THEN [src |-> src,
          acc |-> Access(prop, 0, PyInt(IF prop = "start_time" THEN src._start_time
                                        ELSE src._end_time), "none")]
    ELSE LET r == events_property(src, outcome)
         IN  [src |-> r.src,
              acc |-> IF ~r.acc.ok THEN Access(prop, r.acc.invoked, PyNone, r.acc.err)
                      ELSE Access(prop, r.acc.invoked,
                                  IF prop = "start_time" THEN first_start(r.acc.ret.v, PyNone)
                                  ELSE last_end(r.acc.ret.v, PyNone), "none")]

Accessed(r) == source' = [r.src EXCEPT !.log = Append(source.log, r.acc)]

GetEvents ==
    /\ source.pc = "on"
    /\ Len(source.log) < MaxAccess
    /\ \E outcome \in {"none"} \cup retrieve_errors(source.kind) :
          Accessed(events_property(source, outcome))
    /\ UNCHANGED << upload_vars, codec, adapter, cli, race, uploader, sync >>

GetStartTime ==
    /\ source.pc = "on"
    /\ Len(source.log) < MaxAccess
    /\ \E outcome \in {"none"} \cup retrieve_errors(source.kind) :
          Accessed(time_property("start_time", source, outcome))
    /\ UNCHANGED << upload_vars, codec, adapter, cli, race, uploader, sync >>

GetEndTime ==
    /\ source.pc = "on"
    /\ Len(source.log) < MaxAccess
    /\ \E outcome \in {"none"} \cup retrieve_errors(source.kind) :
          Accessed(time_property("end_time", source, outcome))
    /\ UNCHANGED << upload_vars, codec, adapter, cli, race, uploader, sync >>

SourceNext == GetEvents \/ GetStartTime \/ GetEndTime

SpecSource == SourceInit /\ [][SourceNext]_vars

SourceLog == IF source.pc = "on" THEN source.log ELSE <<>>

\* the accesses that invoked retrieve_events / whose invocation returned
Invoking == { i \in 1..Len(SourceLog) : SourceLog[i].invoked > 0 }
Returning == { i \in Invoking : SourceLog[i].ok }

\* C14 as stated: over the accesses made so far retrieve_events was invoked
\* at most once, and every access to events after the first returned the
\* event list the first one returned
C14_FetchOnce ==
    /\ Cardinality(Invoking) <= 1
    /\ \A i \in 2..Len(SourceLog) :
          (SourceLog[i].prop = "events" /\ SourceLog[1].prop = "events") =>
          SourceLog[i].ret = SourceLog[1].ret

\* C14 amended: at most one invocation of retrieve_events returns, none is
\* made after it, every invocation before it raised, and every access to
\* events after it returns the list it cached
C14_FetchOnceReturned ==
    /\ Cardinality(Returning) <= 1
    /\ \A j \in Returning :
          /\ \A i \in Invoking : i <= j
          /\ \A i \in 1..Len(SourceLog) :
                (i > j /\ SourceLog[i].prop = "events") =>
                /\ SourceLog[i].ok
                /\ SourceLog[i].ret = PyList(source.served)
                /\ SourceLog[i].ret = source._events

\* a fetch failed, the next access fetched again and returned, and a later
\* access to events was served from the cache
C14_Witness ==
    /\ Len(SourceLog) = MaxAccess
    /\ Cardinality(Invoking) = 2
    /\ Cardinality(Returning) = 1
    /\ SourceLog[Len(SourceLog)].prop = "events"
    /\ SourceLog[Len(SourceLog)].invoked = 0
    /\ Len(SourceLog[Len(SourceLog)].ret.v) > 0

\* the earliest start / latest end among the events of a list, None for the
\* empty list
MinStart(evs) ==
    IF evs = <<>> THEN PyNone
    ELSE PyInt(CHOOSE m \in { evs[i].start_time : i \in 1..Len(evs) } :
                  \A i \in 1..Len(evs) : m <= evs[i].start_time)

MaxEnd(evs) ==
    IF evs = <<>> THEN PyNone
    ELSE PyInt(CHOOSE m \in { evs[i].end_time : i \in 1..Len(evs) } :
                  \A i \in 1..Len(evs) : evs[i].end_time <= m)

\* C15: on every source calendar, start_time returns the minimum start time
\* and end_time the maximum end time over the events the calendar returns,
\* and both return None when it returns no event
C15_MinimalWindow ==
    \A i \in 1..Len(SourceLog) :
        /\ (SourceLog[i].ok /\ SourceLog[i].prop = "start_time") =>
              PyEq(SourceLog[i].ret, MinStart(source.served))
        /\ (SourceLog[i].ok /\ SourceLog[i].prop = "end_time") =>
              PyEq(SourceLog[i].ret, MaxEnd(source.served))

(***************************************************************************)
(* Exception classes                                                       *)
(***************************************************************************)
\* class X(Base): the base of every exception class a run can raise, and of
\* the classes of calendarsync.exceptions
Base ==
    [ c \in { "CalendarSynchronizerError", "SourceRetrievalError", "InvalidCredentialsError",
              "UploadCalendarError", "CalendarConnectionError", "EventRetrievalError",
              "EventDeletionError", "EventUploadError", "CampusOfficeAuthorizationError",
              "RequestException", "AuthorizationError", "NotFoundError", "ReportError",
              "DeleteError", "PutError", "TypeError", "ValueError", "NameError",
              "NoOptionError", "NoSectionError", "RuntimeError" } |->
        CASE c = "SourceRetrievalError"    -> "CalendarSynchronizerError"
          [] c = "InvalidCredentialsError" -> "SourceRetrievalError"
          [] c = "UploadCalendarError"     -> "CalendarSynchronizerError"
          [] c = "CalendarConnectionError" -> "UploadCalendarError"
          [] c = "EventRetrievalError"     -> "UploadCalendarError"
          [] c = "EventDeletionError"      -> "UploadCalendarError"
          [] c = "EventUploadError"        -> "UploadCalendarError"
          [] OTHER                         -> "Exception" ]

\* issubclass(c, b)
RECURSIVE IsSubclass(_, _)
IsSubclass(c, b) ==
    \/ c = b
    \/ c \in DOMAIN Base /\ IsSubclass(Base[c], b)

\* what retrieve_events raises when the login answer redirects to loginfailed
LoginRejected == "CampusOfficeAuthorizationError"

\* the step of this run that raised
FailedStep(op) == pc = "raised" /\ \E i \in CallsOf(op) : ~calls[i].ok

\* C16: when the fetch of the source fails, the exception that ends the run is
\* a SourceRetrievalError, and an InvalidCredentialsError when the login was
\* rejected; InvalidCredentialsError is a SourceRetrievalError, which is a
\* CalendarSynchronizerError
C16_SourceErrorsTyped ==
    /\ IsSubclass("InvalidCredentialsError", "SourceRetrievalError")
    /\ IsSubclass("SourceRetrievalError", "CalendarSynchronizerError")
    /\ FailedStep("fetch") =>
          /\ IsSubclass(err, "SourceRetrievalError")
          /\ err = LoginRejected => IsSubclass(err, "InvalidCredentialsError")

\* the class the claim gives the failure of each step on the upload calendar
StepErrorClass ==
    [ op \in {"connect", "list", "delete", "add"} |->
        CASE op = "connect" -> "CalendarConnectionError"
          [] op = "list"    -> "EventRetrievalError"
          [] op = "delete"  -> "EventDeletionError"
          [] op = "add"     -> "EventUploadError" ]

\* C17: in the package, when connect, the listing, a delete or an add fails,
\* the exception that ends the run has the class of that step, which is an
\* UploadCalendarError
C17_UploadErrorsTyped ==
    \A op \in DOMAIN StepErrorClass :
        /\ IsSubclass(StepErrorClass[op], "UploadCalendarError")
        /\ (program = "package" /\ FailedStep(op)) => IsSubclass(err, StepErrorClass[op])

C20_SetReconciliation ==
    ListReturned =>
        /\ err # "ValueError"
        /\ pc \in {"delete", "add", "done"} =>
              Len(Fetched) - Len(events) = Len(Listed) - Len(old_event_ids)

(***************************************************************************)
(* The command line entry point of the script                              *)
(***************************************************************************)
\* config.get calls in the order the script makes them
ConfigReads ==
    << [section |-> "CampusOffice", option |-> "mat"],
       [section |-> "CampusOffice", option |-> "pass"],
       [section |-> "Adapter", option |-> "target"],
       [section |-> "CalDAV", option |-> "url"],
       [section |-> "CalDAV", option |-> "username"],
       [section |-> "CalDAV", option |-> "password"] >>

\* number of reads made before the adapter is chosen
ReadsBeforeTarget == 3

NothingMissing == [section |-> "", option |-> ""]

\* what the config file lacks: nothing, one option, or one whole section
ConfigFiles ==
    {NothingMissing} \cup Range(ConfigReads)
        \cup { [section |-> r.section, option |-> ""] : r \in Range(ConfigReads) }

\* the [Period] section: not there, two dates in order, start after end, a
\* date that does not parse, no end option
Periods == {"absent", "valid", "reversed", "malformed", "no_end"}

\* config.get(section, option)
config_get(missing, r) ==
    IF missing.section = r.section /\ missing.option = "" THEN "NoSectionError"
    ELSE IF missing = r THEN "NoOptionError"
    ELSE "none"

\* the first exception of the reads 1..n, "none" when all return
RECURSIVE read_all(_, _, _)
read_all(missing, i, n) ==
    IF i > n THEN "none"
    ELSE IF config_get(missing, ConfigReads[i]) # "none" THEN config_get(missing, ConfigReads[i])
    ELSE read_all(missing, i + 1, n)

\* the config part of the try block up to the adapter
load_config(missing, tgt) ==
    IF read_all(missing, 1, ReadsBeforeTarget) # "none"
    THEN read_all(missing, 1, ReadsBeforeTarget)
    ELSE IF tgt # "caldav" THEN "RuntimeError"
    ELSE read_all(missing, ReadsBeforeTarget + 1, Len(ConfigReads))

\* the [Period] part and the uploader's constructor
load_period(period) ==
    CASE period = "malformed" -> "ValueError"
      [] period = "no_end"    -> "NoOptionError"
      [] period = "reversed"  -> "ValueError"
      [] OTHER                -> "none"

\* the except clauses of the try block, in order
ExceptClauses ==
    << {"NoOptionError"}, {"RequestException", "CampusOfficeAuthorizationError"},
       {"AuthorizationError"}, {"NotFoundError"}, {"ReportError"}, {"DeleteError"},
       {"PutError"}, {"ValueError"} >>

\* the exception is caught by one of the clauses
Caught(e) == \E i \in 1..Len(ExceptClauses) : \E c \in ExceptClauses[i] : IsSubclass(e, c)

\* exit status of exit() without argument, of a script running to its end,
\* and of an exception nothing catches
ExitDefault == 0
ExitTraceback == 1

\* the exceptions upload() lets out
UploadErrors == StepErrors \cup {"ValueError"}

MainInit ==
    /\ sync = Off
    /\ race = Off
    /\ uploader = Off
    /\ UploadIdle
    /\ codec = Off
    /\ adapter = Off
    /\ source = Off
    /\ \E n \in 1..3, m \in ConfigFiles, tg \in {"caldav", "exchange"}, pd \in Periods :
          cli = [ pc |-> "start", argc |-> n, missing |-> m, target |-> tg, period |-> pd,
                  raised |-> "none", log |-> <<>>, status |-> ExitDefault ]

\* len(sys.argv) != 2: error line, usage line, exit()
MainArgs ==
    /\ cli.pc = "start"
    /\ IF cli.argc # 2
       THEN cli' = [cli EXCEPT !.pc = "exited", !.log = @ \o <<"ERROR", "INFO">>,
                               !.status = ExitDefault]
       ELSE cli' = [cli EXCEPT !.pc = "config"]
    /\ UNCHANGED << upload_vars, codec, adapter, source, race, uploader, sync >>

\* the try block up to the uploader's constructor
MainConfig ==
    /\ cli.pc = "config"
    /\ LET e == IF load_config(cli.missing, cli.target) # "none"
                THEN load_config(cli.missing, cli.target)
                ELSE load_period(cli.period)
       IN  cli' = IF e = "none" THEN [cli EXCEPT !.pc = "upload"]
                  ELSE [cli EXCEPT !.pc = "except", !.raised = e]
    /\ UNCHANGED << upload_vars, codec, adapter, source, race, uploader, sync >>

\* uploader.upload() returns or raises
MainUpload ==
    /\ cli.pc = "upload"
    /\ \/ cli' = [cli EXCEPT !.pc = "exited", !.log = Append(@, "INFO"), !.status = ExitDefault]
       \/ \E e \in UploadErrors : cli' = [cli EXCEPT !.pc = "except", !.raised = e]
    /\ UNCHANGED << upload_vars, codec, adapter, source, race, uploader, sync >>

\* the matching except clause logs an error line and the script ends; an
\* exception no clause matches ends the interpreter with a traceback
MainExcept ==
    /\ cli.pc = "except"
    /\ IF Caught(cli.raised)
       THEN cli' = [cli EXCEPT !.pc = "exited", !.log = Append(@, "ERROR"), !.status = ExitDefault]
       ELSE cli' = [cli EXCEPT !.pc = "exited", !.status = ExitTraceback]
    /\ UNCHANGED << upload_vars, codec, adapter, source, race, uploader, sync >>

MainNext == MainArgs \/ MainConfig \/ MainUpload \/ MainExcept

SpecMain == MainInit /\ [][MainNext]_vars

\* C19: when an exception came out of the loading of the configuration or of
\* upload(), the script has logged an error line and its exit status is not 0
C19_ErrorLineAndNonZeroExit ==
    (cli.pc = "exited" /\ cli.raised # "none") =>
        /\ \E i \in 1..Len(cli.log) : cli.log[i] = "ERROR"
        /\ cli.status # 0

(***************************************************************************)
(* Decoding of stored identifiers                                          *)
(***************************************************************************)
\* the pair a stored string stands for when it is cut at the first
\* separator only: (None, string) without separator
CutAtFirst(raw) ==
    LET i == Find(raw, separator, 1)
    IN  IF i = 0 THEN PyTuple(<<PyNone, PyStr(raw)>>)
        ELSE PyTuple(<<PyStr(SubSeq(raw, 1, i - 1)),
                       PyStr(SubSeq(raw, i + Len(separator), Len(raw)))>>)

\* C21: whatever string is stored, the decoded identity is a pair, the one
\* obtained by cutting the string at its first separator only, also when the
\* separator occurs in it more than once
C21_SplitAtFirstOnly ==
    codec.pc \in {"decoded", "decoded_bare"} =>
        /\ Len(codec.out.v) = 2
        /\ codec.out = CutAtFirst(codec.raw.v)

ListedUrls == { adapter_events[i].url : i \in 1..Len(adapter_events) }

\* C23: every identity a run passes to delete_event was returned by the
\* listing of that run, a delete call removes only events that listing found,
\* and every target event outside the time period is still on the target
C23_DeletesOnlyListed ==
    /\ \A i \in CallsOf("delete") :
          /\ \E j \in CallsOf("list") : j < i /\ calls[j].ok
          /\ calls[i].arg \in Range(Listed)
          /\ calls[i].urls \subseteq ListedUrls
    /\ OutsidePeriod(target0) \subseteq Range(target)

\* a delete call removed a listed event while an event with the same uid
\* outside the time period stayed on the target
C23_Witness ==
    \E i \in CallsOf("delete") :
        /\ calls[i].ok
        /\ calls[i].urls # {}
        /\ \E x \in OutsidePeriod(target) : PyEq(raw_uid(x), calls[i].arg)

(***************************************************************************)
(* Two runs of upload() at once on the same upload calendar                *)
(***************************************************************************)
Runs == {1, 2}

\* a call of one of the two runs
RaceCall(r, op, arg, urls, ok) == [run |-> r, op |-> op, arg |-> arg, urls |-> urls, ok |-> ok]

\* both runs have fetched the same source and connected; each has its own
\* uploader, adapter and local lists
RaceInit ==
    /\ sync = Off
    /\ UploadIdle
    /\ codec = Off
    /\ adapter = Off
    /\ source = Off
    /\ cli = Off
    /\ uploader = Off
    /\ \E p \in Programs, f \in SeqsUpTo(FeedPool, RaceSrc), t \in SeqsUpTo(TgtPool, RaceTgt) :
          race = [ pc |-> "on", program |-> p, feed |-> f, target |-> Stored(t),
                   target0 |-> Stored(t), nextUrl |-> Len(t) + 1, calls |-> <<>>,
                   runs |-> [ r \in Runs |->
                                [ pc |-> "connected", events |-> retrieve_events(p, f),
                                  old_event_ids |-> <<>>, adapter_events |-> <<>>,
                                  di |-> 1, ai |-> 1, err |-> "none" ] ] ]

\* run r after an exception left its upload()
RaceRaised(r, e) == [race.runs[r] EXCEPT !.pc = "raised", !.err = e]

\* run r lists the target and diffs the listing against its events
RaceList(r) ==
    /\ race.pc = "on"
    /\ race.runs[r].pc = "connected"
    /\ \/ LET period == listing_period(WinStart, WinEnd)
              found == date_search(race.target, period.v[1].v, period.v[2].v)
              ids == retrieve_event_ids(race.program, found)
              res == product_loop(race.program, race.runs[r].events, ids, 1,
                                  race.runs[r].events, ids)
          IN  race' = [race EXCEPT
                 !.calls = Append(@, RaceCall(r, "list", period, {}, TRUE)),
                 !.runs[r] = [@ EXCEPT
                    !.adapter_events = found,
                    !.events = res.events,
                    !.old_event_ids = res.old_event_ids,
                    !.pc = IF res.err = "none"
                           THEN LoopPosition(1, 1, Len(res.old_event_ids), Len(res.events))
                           ELSE "raised",
                    !.err = res.err]]
       \/ race' = [race EXCEPT
             !.calls = Append(@, RaceCall(r, "list", PyNone, {}, FALSE)),
             !.runs[r] = RaceRaised(r, "ReportError")]
    /\ UNCHANGED << upload_vars, codec, adapter, source, cli, uploader, sync >>

\* run r calls delete_event for its next stale id
RaceDelete(r) ==
    /\ race.pc = "on"
    /\ race.runs[r].pc = "delete"
    /\ LET me == race.runs[r]
           uid == me.old_event_ids[me.di]
           after == delete_event(race.target, me.adapter_events, uid)
       IN  \/ /\ DeleteArgsPassed = DeleteParams(race.program)
              /\ race' = [race EXCEPT
                    !.target = after,
                    !.calls = Append(@, RaceCall(r, "delete", uid, Removed(race.target, after), TRUE)),
                    !.runs[r] = [@ EXCEPT
                       !.di = @ + 1,
                       !.pc = LoopPosition(me.di + 1, me.ai, Len(me.old_event_ids), Len(me.events))]]
           \/ /\ DeleteArgsPassed = DeleteParams(race.program)
              /\ race' = [race EXCEPT
                    !.calls = Append(@, RaceCall(r, "delete", uid, {}, FALSE)),
                    !.runs[r] = RaceRaised(r, "DeleteError")]
           \/ /\ DeleteArgsPassed # DeleteParams(race.program)
              /\ race' = [race EXCEPT
                    !.calls = Append(@, RaceCall(r, "delete", uid, {}, FALSE)),
                    !.runs[r] = RaceRaised(r, "TypeError")]
    /\ UNCHANGED << upload_vars, codec, adapter, source, cli, uploader, sync >>

\* run r calls add_event for its next new event
RaceAdd(r) ==
    /\ race.pc = "on"
    /\ race.runs[r].pc = "add"
    /\ LET me == race.runs[r]
           ev == me.events[me.ai]
       IN  \/ /\ AddArgsPassed = AddParams(race.program)
              /\ race' = [race EXCEPT
                    !.target = add_event(race.target, race.nextUrl, ev),
                    !.nextUrl = @ + 1,
                    !.calls = Append(@, RaceCall(r, "add", ev.uid, {race.nextUrl}, TRUE)),
                    !.runs[r] = [@ EXCEPT
                       !.ai = @ + 1,
                       !.pc = LoopPosition(me.di, me.ai + 1, Len(me.old_event_ids), Len(me.events))]]
           \/ /\ AddArgsPassed = AddParams(race.program)
              /\ race' = [race EXCEPT
                    !.calls = Append(@, RaceCall(r, "add", ev.uid, {}, FALSE)),
                    !.runs[r] = RaceRaised(r, "PutError")]
           \/ /\ AddArgsPassed # AddParams(race.program)
              /\ race' = [race EXCEPT
                    !.calls = Append(@, RaceCall(r, "add", ev.uid, {}, FALSE)),
                    !.runs[r] = RaceRaised(r, "TypeError")]
    /\ UNCHANGED << upload_vars, codec, adapter, source, cli, uploader, sync >>

RaceNext == \E r \in Runs : RaceList(r) \/ RaceDelete(r) \/ RaceAdd(r)

SpecRace == RaceInit /\ [][RaceNext]_vars

RaceLog == IF race.pc = "on" THEN race.calls ELSE <<>>

RaceCallsOf(op) == { i \in 1..Len(RaceLog) : RaceLog[i].op = op }

\* both runs returned from upload()
BothDone == race.pc = "on" /\ \A r \in Runs : race.runs[r].pc = "done"

\* the runs overlapped: each had listed the target before either added
Overlapped ==
    /\ \A r \in Runs : \E i \in RaceCallsOf("list") : RaceLog[i].run = r
    /\ \A i \in RaceCallsOf("list"), j \in RaceCallsOf("add") : i < j

\* number of events with stored uid u the calendar holds inside the period
Copies(tgt, u) ==
    LET found == date_search(tgt, WinStart, WinEnd)
    IN  Cardinality({ i \in 1..Len(found) : found[i].uid = u })

\* the source events of the race
RaceFetched == IF race.pc = "on" THEN retrieve_events(race.program, race.feed) ELSE <<>>

\* C24: when two runs on the same unchanged source have both returned and
\* each had listed the target before either added, every source event whose
\* uid the target did not hold in the period is on the target at least twice
C24_OverlapDuplicates ==
    (BothDone /\ Overlapped) =>
        \A e \in Range(RaceFetched) :
            Copies(race.target0, e.uid.v) = 0 => Copies(race.target, e.uid.v) >= 2

\* both runs returned, no call of either failed, and the target holds twice
\* a uid it held not at all before, while the source holds it once
C24_Witness ==
    /\ BothDone
    /\ Overlapped
    /\ \A i \in 1..Len(RaceLog) : RaceLog[i].ok
    /\ Len(RaceFetched) = 1
    /\ Copies(race.target0, RaceFetched[1].uid.v) = 0
    /\ Copies(race.target, RaceFetched[1].uid.v) = 2

(***************************************************************************)
(* The uploader's time period: constructor and setters                     *)
(***************************************************************************)
\* the boundaries tried: today, the default end, and later
Times == { Today, DefaultEnd, DefaultEnd + 1, DefaultEnd + 2 }

Boundaries == {PyNone} \cup { PyInt(n) : n \in Times }

\* a start_time setter that stores the value without looking at the end
set_start_time_Unchecked(w, start) ==
    [w |-> [w EXCEPT !._start_time = start], err |-> "none"]

\* start_time.setter: comparing a datetime with None raises TypeError
set_start_time(w, start) ==
    IF w._end_time.t = "None"
    THEN [w |-> Period(start, start), err |-> "none"]
    ELSE IF start.t = "None" THEN [w |-> w, err |-> "TypeError"]
    ELSE IF w._end_time.v < start.v THEN [w |-> w, err |-> "ValueError"]
    ELSE [w |-> [w EXCEPT !._start_time = start], err |-> "none"]

\* end_time.setter
set_end_time(w, end) ==
    IF w._start_time.t = "None"
    THEN [w |-> Period(end, end), err |-> "none"]
    ELSE IF end.t = "None" THEN [w |-> w, err |-> "TypeError"]
    ELSE IF w._start_time.v > end.v THEN [w |-> w, err |-> "ValueError"]
    ELSE [w |-> [w EXCEPT !._end_time = end], err |-> "none"]

\* a constructor that accepts a single boundary
one_boundary_Never(start, end) == FALSE

\* (start_time is None) != (end_time is None)
one_boundary(start, end) == (start.t = "None") # (end.t = "None")

\* CampusCalendarUploader.__init__: the defaults, then the two setters when
\* both boundaries are given
uploader_init(start, end) ==
    LET w0 == Period(PyInt(DefaultStart), PyInt(DefaultEnd))
        r1 == set_start_time(w0, start)
        r2 == set_end_time(r1.w, end)
    IN  IF start.t # "None" /\ end.t # "None"
        THEN IF r1.err # "none" THEN r1 ELSE r2
        ELSE IF one_boundary(start, end) THEN [w |-> w0, err |-> "ValueError"]
        ELSE [w |-> w0, err |-> "none"]

WindowInit ==
    /\ sync = Off
    /\ UploadIdle
    /\ codec = Off
    /\ adapter = Off
    /\ source = Off
    /\ cli = Off
    /\ race = Off
    /\ \E a \in Boundaries, b \in Boundaries :
          uploader = [ pc |-> "new", start |-> a, end |-> b,
                       w |-> Period(PyNone, PyNone), err |-> "none", log |-> <<>> ]

\* CampusCalendarUploader(mat, pass, adapter, start_time, end_time)
Construct ==
    /\ uploader.pc = "new"
    /\ LET r == uploader_init(uploader.start, uploader.end)
       IN  uploader' = IF r.err = "none"
                       THEN [uploader EXCEPT !.pc = "ready", !.w = r.w]
                       ELSE [uploader EXCEPT !.pc = "raised", !.err = r.err]
    /\ UNCHANGED << upload_vars, codec, adapter, source, cli, race, sync >>

\* one assignment: attribute, value, the period before it, what it raised
Assignment(attr, value, before, raised) ==
    [attr |-> attr, value |-> value, before |-> before, err |-> raised]

\* uploader.start_time = v
SetStartTime ==
    /\ uploader.pc = "ready"
    /\ Len(uploader.log) < MaxAssign
    /\ \E v \in Boundaries :
          LET r == set_start_time(uploader.w, v)
          IN  uploader' = [uploader EXCEPT
                 !.w = r.w,
                 !.log = Append(@, Assignment("start_time", v, uploader.w, r.err))]
    /\ UNCHANGED << upload_vars, codec, adapter, source, cli, race, sync >>

\* uploader.end_time = v
SetEndTime ==
    /\ uploader.pc = "ready"
    /\ Len(uploader.log) < MaxAssign
    /\ \E v \in Boundaries :
          LET r == set_end_time(uploader.w, v)
          IN  uploader' = [uploader EXCEPT
                 !.w = r.w,
                 !.log = Append(@, Assignment("end_time", v, uploader.w, r.err))]
    /\ UNCHANGED << upload_vars, codec, adapter, source, cli, race, sync >>

WindowNext == Construct \/ SetStartTime \/ SetEndTime

SpecWindow == WindowInit /\ [][WindowNext]_vars

\* the constructor has run
Constructed == uploader.pc \in {"ready", "raised"}

\* C25: the constructor given exactly one of start_time and end_time raises
\* ValueError; given neither it returns with the period from one week before
\* today to 27 weeks after today
C25_OneBoundaryOrDefault ==
    Constructed =>
        /\ ((uploader.start.t = "None") # (uploader.end.t = "None")) =>
              (uploader.pc = "raised" /\ uploader.err = "ValueError")
        /\ (uploader.start.t = "None" /\ uploader.end.t = "None" /\ uploader.log = <<>>) =>
              /\ uploader.pc = "ready"
              /\ uploader.w = Period(PyInt(Today - 1), PyInt(Today + 27))

\* the constructor was given the end only and raised
C25_Witness ==
    /\ uploader.pc = "raised"
    /\ uploader.start.t = "None"
    /\ uploader.end.t = "int"

\* C26: the constructor given both boundaries with start_time <= end_time
\* returns, and the period is then exactly (start_time, end_time)
C26_GivenPeriodKept ==
    ( /\ Constructed
      /\ uploader.start.t = "int" /\ uploader.end.t = "int"
      /\ uploader.start.v <= uploader.end.v
      /\ uploader.log = <<>> ) =>
        /\ uploader.pc = "ready"
        /\ uploader.w = Period(uploader.start, uploader.end)

\* C27: after every assignment start_time <= end_time holds; an assignment
\* raises ValueError exactly when its value would put the start after the
\* end, and an assignment that raises leaves both boundaries as they were
C27_PeriodOrdered ==
    uploader.pc = "ready" =>
        /\ uploader.w._start_time.t = "int" /\ uploader.w._end_time.t = "int"
        /\ uploader.w._start_time.v <= uploader.w._end_time.v
        /\ \A i \in 1..Len(uploader.log) :
              LET a == uploader.log[i]
                  after == IF i = Len(uploader.log) THEN uploader.w ELSE uploader.log[i + 1].before
                  breaks == /\ a.value.t = "int"
                            /\ IF a.attr = "start_time" THEN a.value.v > a.before._end_time.v
                               ELSE a.value.v < a.before._start_time.v
              IN  /\ breaks <=> a.err = "ValueError"
                  /\ a.err # "none" => after = a.before

\* an assignment of a start after the end was refused, after an assignment
\* that moved the end
C27_Witness ==
    /\ uploader.pc = "ready"
    /\ Len(uploader.log) = 2
    /\ uploader.log[1].attr = "end_time" /\ uploader.log[1].err = "none"
    /\ uploader.log[1].before # uploader.log[2].before
    /\ uploader.log[2].attr = "start_time" /\ uploader.log[2].err = "ValueError"

(***************************************************************************)
(* The source adapter's cached list and the list upload() diffs            *)
(***************************************************************************)
\* the upload adapters of the package
UploadAdapters == {"CalDAVUploadAdapter", "ExchangeUploadAdapter"}

SyncInit ==
    /\ UploadIdle
    /\ codec = Off
    /\ adapter = Off
    /\ source = Off
    /\ cli = Off
    /\ race = Off
    /\ uploader = Off
    /\ \E b \in UploadAdapters, f \in SeqsUpTo(FeedPool, MaxSrc), t \in SeqsUpTo(TgtPool, MaxTgt) :
          sync = [ pc |-> "new", backend |-> b, served |-> f, calendar |-> Stored(t),
                   _events |-> PyNone, fetched |-> <<>>, old_event_ids |-> <<>>,
                   err |-> "none" ]

\* events = campus_cal.events: the property fetches, caches the list in
\* _events and returns that list
SyncFetch ==
    /\ sync.pc = "new"
    /\ \/ LET evs == retrieve_events("package", sync.served)
          IN  sync' = [sync EXCEPT !.pc = "fetched", !._events = PyList(evs), !.fetched = evs]
       \/ \E e \in FetchErrors : sync' = [sync EXCEPT !.pc = "raised", !.err = e]
    /\ UNCHANGED << upload_vars, codec, adapter, source, cli, race, uploader >>

\* _upload_events(events): the listing and the matching loop, which removes
\* from the list it was handed, the list _events refers to
SyncDiff ==
    /\ sync.pc = "fetched"
    /\ LET found == date_search(sync.calendar, WinStart, WinEnd)
           ids == [ i \in 1..Len(found) |-> listed_id(sync.backend, found[i]) ]
           res == product_loop("package", sync._events.v, ids, 1, sync._events.v, ids)
       IN  sync' = [sync EXCEPT
              !.pc = IF res.err = "none" THEN "diffed" ELSE "raised",
              !._events = PyList(res.events),
              !.old_event_ids = res.old_event_ids,
              !.err = res.err]
    /\ UNCHANGED << upload_vars, codec, adapter, source, cli, race, uploader >>

\* the listing fails
SyncListFails ==
    /\ sync.pc = "fetched"
    /\ sync' = [sync EXCEPT !.pc = "raised", !.err = "ReportError"]
    /\ UNCHANGED << upload_vars, codec, adapter, source, cli, race, uploader >>

SyncNext == SyncFetch \/ SyncDiff \/ SyncListFails

SpecSync == SyncInit /\ [][SyncNext]_vars

\* C28: once the fetch returned, the events property of the source calendar
\* returns the events the fetch returned, also after the diff has matched
\* some of them against listed identities
C28_SourceListKept ==
    (sync.pc \in {"fetched", "diffed", "raised"} /\ sync._events.t = "list") =>
        events_property(sync, "none").acc.ret = PyList(sync.fetched)

(***************************************************************************)
(* Identities without calendar uid                                         *)
(***************************************************************************)
\* C29: on the CalDAV adapter of the package, add_event of an event whose
\* calendar uid is None returns unless the server refuses, and stores the
\* bare event uid; a later listing returns (None, uid) for it, and
\* delete_event(None, uid) after that listing removes it
C29_AbsentCalendarUid ==
    (adapter.pc = "on" /\ adapter.backend = "CalDAVUploadAdapter") =>
    \A i \in 1..Len(AdapterLog) :
        ( /\ AdapterLog[i].op = "add"
          /\ AdapterLog[i].id.v[1] = PyNone
          /\ AdapterLog[i].err # "PutError" ) =>
        /\ AdapterLog[i].ok
        /\ \A n \in 1..Len(adapter.calendar) :
              adapter.calendar[n].url \in AdapterLog[i].urls =>
              adapter.calendar[n].uid = AdapterLog[i].id.v[2].v
        /\ \A j \in 1..Len(AdapterLog) :
              ( /\ i < j
                /\ AdapterLog[j].op = "list" /\ AdapterLog[j].ok
                /\ StillStored(i, j) ) =>
              \E n \in 1..Len(AdapterLog[j].ret) :
                  PyEq(AdapterLog[j].ret[n], AdapterLog[i].id)

====
